---- MODULE Spec2Model ----
(***************************************************************************)
(* WaPOR v3 download client (rudeprover/WAPORWA, modules/WaPOR).           *)
(*                                                                         *)
(* These parts of the program are modelled:                                *)
(*   - waporv3_api.collect_responses: the paginated catalog traversal      *)
(*     with its retry loop (specification SpecList);                       *)
(*   - the per-dataset fetch operations and their per-asset batch loops:   *)
(*     WaPOR_v3._download_mapset, AET_dekadal.main, RET_yearly.main,       *)
(*     I_dekadal.main and PCP_yearly.main (specification Spec, which       *)
(*     calls collect_responses and then runs the batch; SpecInterrupt      *)
(*     adds a caller who interrupts the processing of an asset, SpecBox    *)
(*     calls the entry points with boxes beside, at the edge of and across *)
(*     the raster, and with boxes whose limits are reversed);              *)
(*   - the clean/scale transform that every batch loop applies to the      *)
(*     cropped raster (specification SpecTransform);                       *)
(*   - the date parsers, character by character: _parse_date_from_code of  *)
(*     the per-dataset modules and the date extraction of                  *)
(*     waporv3_api.filter_rasters_by_date (specification SpecParse);       *)
(*   - the selection that each entry point makes with them: the filter     *)
(*     loop over the listed rasters and the sort (specification            *)
(*     SpecSelect);                                                        *)
(*   - the scale-factor table of WaPOR_v3 and its lookup (specification    *)
(*     SpecScale);                                                         *)
(*   - the choice of the dataset code from the level parameter             *)
(*     (specification SpecLevel).                                          *)
(*                                                                         *)
(* Numbers: raster samples are kept in tenths, so that the scale factor    *)
(* 0.1 is exact: the sample 20 is the integer 200, and 2.0 is 20.          *)
(***************************************************************************)
EXTENDS Integers, Sequences, FiniteSets, TLC

(***************************************************************************)
(* Bounds of the model.                                                    *)
(***************************************************************************)
\* number of page URLs the catalog server knows
NPages == 2
\* cap on the GET requests of one traversal (a cyclic catalog never ends)
MaxReq == 7

(***************************************************************************)
(* Program constants.                                                      *)
(***************************************************************************)
\* a retry loop that allows one attempt more
MaxAttempts_OneMore == 3 + 1
\* for attempt in range(3)
MaxAttempts == 3
\* time.sleep(2)
RetryDelay == 2

VARIABLES
  \* ---- the catalog server (environment)
  pages,      \* page URL -> [items, next]: what a successful GET returns
  \* ---- collect_responses
  info,       \* the info argument
  lpc,        \* position in collect_responses
  data_next,  \* href of the rel="next" link of `data`, 0 when there is none
  url_,       \* the page URL being requested
  attempt,    \* the retry loop's variable
  output,     \* the accumulated list
  fetched,    \* page URLs whose response was received, in order
  nreq,       \* GET requests issued
  nfail,      \* GET requests that failed
  slept,      \* total time spent in time.sleep
  \* ---- the fetch operation (one of the per-dataset entry points)
  variant,    \* which entry point runs
  gis,        \* WaPOR_v3: import GIS_functions succeeded
  start_dt,   \* the window
  end_dt,
  fpc,        \* position in the fetch operation
  selected,   \* the list the batch loop iterates over
  idx,        \* 1-based position of the batch loop in selected
  dir,        \* the output directory exists
  fs,         \* the files of the output directory: path -> content
  net,        \* asset downloads and remote warps issued
  amount,     \* the progress counter
  results,    \* what each finished iteration reported, in order
  ret,        \* the fetch operation's outcome
  \* ---- the clean/scale transform of one raster
  tpc,        \* position in the transform
  scale,      \* the scale factor, in tenths (0.1 is 1, 1.0 is 10)
  src_arr,    \* the samples as gis.OpenAsArray(..., nan_values=True) gave them
  arr,        \* Array / arr
  \* ---- the date parsers and the selection loop
  code_,      \* the raster code being parsed, a string
  ppc,        \* position in the parser
  token,      \* token / date_str
  fmt_i,      \* which of the three formats the for loop of the parser tries
  parsed,     \* what the parser returned
  all_rasters,\* the list the selection loop filters
  ri,         \* 1-based position of the selection loop in all_rasters
  spc,        \* position in the selection
  \* ---- the bounding box of a fetch call
  lonlim,     \* [minLon, maxLon] as the caller gave it
  latlim,     \* [minLat, maxLat] as the caller gave it
  \* ---- the scale-factor table of WaPOR_v3
  scale_factors, \* the dict SCALE_FACTORS as it is at run time
  mapset_code,   \* the dataset identifier of the lookup
  nlook,         \* lookups done so far
  \* ---- the level parameter of an entry point
  level          \* level, as the caller gave it

listVars == <<pages, info, lpc, data_next, url_, attempt, output, fetched,
              nreq, nfail, slept>>

fetchVars == <<variant, gis, start_dt, end_dt, fpc, selected, idx, dir, fs,
               net, amount, results, ret>>

transVars == <<tpc, scale, src_arr, arr>>

dateVars == <<code_, ppc, token, fmt_i, parsed, all_rasters, ri, spc>>

boxVars == <<lonlim, latlim>>

lookVars == <<scale_factors, mapset_code, nlook, level>>

vars == <<listVars, fetchVars, transVars, dateVars, boxVars, lookVars>>

(***************************************************************************)
(* Catalog items.  An item is a dict with the fields "code" and            *)
(* "downloadUrl"; codes and URLs are small integers, ordered as the        *)
(* strings they stand for.                                                 *)
(***************************************************************************)
Item(c, u) == [code |-> c, downloadUrl |-> u]

\* the contents a page of the fixture server can have (1 <= code, url)
PageContents ==
  { <<>>,
    << Item(1, 2) >>,
    << Item(2, 1), Item(1, 1) >>,
    << Item(1, 2), Item(1, 1) >> }

PageIds == 1..NPages

\* every server: each page has a content and at most one rel="next" link,
\* which may point anywhere (also back to a page already visited)
Catalogs == [PageIds -> [items : PageContents, next : 0..NPages]]

InfoList(fields) == [isList |-> TRUE, fields |-> fields]
InfoAll == [isList |-> FALSE, fields |-> <<>>]

(***************************************************************************)
(* sorted(output) on tuples: lexicographic order.                          *)
(***************************************************************************)
RECURSIVE TupleLess(_, _)
TupleLess(a, b) ==
  IF a = <<>> THEN b # <<>>
  ELSE IF b = <<>> THEN FALSE
  ELSE IF Head(a) # Head(b) THEN Head(a) < Head(b)
  ELSE TupleLess(Tail(a), Tail(b))

TupleLeq(a, b) == a = b \/ TupleLess(a, b)

RECURSIVE InsertSorted(_, _)
InsertSorted(x, s) ==
  IF s = <<>> THEN <<x>>
  ELSE IF TupleLess(x, Head(s)) THEN <<x>> \o s
  ELSE <<Head(s)>> \o InsertSorted(x, Tail(s))

RECURSIVE Sorted(_)
Sorted(s) ==
  IF s = <<>> THEN <<>>
  ELSE InsertSorted(s[Len(s)], Sorted(SubSeq(s, 1, Len(s) - 1)))

\* record = tuple(item.get(field) for field in info)
Extract(item, fields) == [k \in 1..Len(fields) |-> item[fields[k]]]

ExtractAll(items, inf) ==
  IF inf.isList
  THEN [k \in 1..Len(items) |-> Extract(items[k], inf.fields)]
  ELSE items

(***************************************************************************)
(* collect_responses                                                       *)
(***************************************************************************)
\* data = {"links": [{"rel": "next", "href": url}]}; output = []
ListEntry(start) ==
  /\ lpc' = "while"
  /\ data_next' = start
  /\ url_' = 0
  /\ attempt' = 0
  /\ output' = <<>>
  /\ fetched' = <<>>
  /\ nreq' = 0
  /\ nfail' = 0
  /\ slept' = 0

\* LoopEnter with the attempt counter carried over from the page before
LoopEnter_SharedBudget ==
  /\ lpc = "while"
  /\ data_next # 0
  /\ url_' = data_next
  /\ lpc' = "get"
  /\ UNCHANGED <<pages, info, data_next, attempt, output, fetched, nreq,
                 nfail, slept>>
  /\ UNCHANGED <<fetchVars, transVars, dateVars, boxVars, lookVars>>

\* while "next" in [x["rel"] for x in data.get("links", [])]: url_ = ...
LoopEnter ==
  /\ lpc = "while"
  /\ data_next # 0
  /\ url_' = data_next
  /\ attempt' = 0
  /\ lpc' = "get"
  /\ UNCHANGED <<pages, info, data_next, output, fetched, nreq, nfail, slept>>
  /\ UNCHANGED <<fetchVars, transVars, dateVars, boxVars, lookVars>>

\* the while condition is false: fall out of the loop
LoopExit ==
  /\ lpc = "while"
  /\ data_next = 0
  /\ lpc' = "sort"
  /\ UNCHANGED <<pages, info, data_next, url_, attempt, output, fetched,
                 nreq, nfail, slept>>
  /\ UNCHANGED <<fetchVars, transVars, dateVars, boxVars, lookVars>>

\* requests.get(url_, timeout=30); raise_for_status(); break
GetOk ==
  /\ lpc = "get"
  /\ attempt < MaxAttempts
  /\ nreq < MaxReq
  /\ nreq' = nreq + 1
  /\ lpc' = "parse"
  /\ UNCHANGED <<pages, info, data_next, url_, attempt, output, fetched,
                 nfail, slept>>
  /\ UNCHANGED <<fetchVars, transVars, dateVars, boxVars, lookVars>>

\* except RequestException (connection error, HTTP error status, timeout)
GetFail ==
  /\ lpc = "get"
  /\ attempt < MaxAttempts
  /\ nreq < MaxReq
  /\ nreq' = nreq + 1
  /\ nfail' = nfail + 1
  /\ IF attempt = MaxAttempts - 1
     THEN \* print("Error fetching data after 3 attempts"); return output
          /\ lpc' = "returned_partial"
          /\ UNCHANGED <<attempt, slept>>
     ELSE \* time.sleep(2); next attempt
          /\ slept' = slept + RetryDelay
          /\ attempt' = attempt + 1
          /\ lpc' = "get"
  /\ UNCHANGED <<pages, info, data_next, url_, output, fetched>>
  /\ UNCHANGED <<fetchVars, transVars, dateVars, boxVars, lookVars>>

\* Parse leaving the loop on a page without next link before its items are
\* appended
Parse_DropsLastPage ==
  /\ lpc = "parse"
  /\ fetched' = Append(fetched, url_)
  /\ data_next' = pages[url_].next
  /\ IF pages[url_].items = <<>> \/ pages[url_].next = 0
     THEN /\ lpc' = "sort"
          /\ UNCHANGED output
     ELSE /\ output' = output \o ExtractAll(pages[url_].items, info)
          /\ lpc' = "while"
  /\ UNCHANGED <<pages, info, url_, attempt, nreq, nfail, slept>>
  /\ UNCHANGED <<fetchVars, transVars, dateVars, boxVars, lookVars>>

\* Parse without the break on an empty item list
Parse_NoBreakOnEmpty ==
  /\ lpc = "parse"
  /\ fetched' = Append(fetched, url_)
  /\ data_next' = pages[url_].next
  /\ output' = output \o ExtractAll(pages[url_].items, info)
  /\ lpc' = "while"
  /\ UNCHANGED <<pages, info, url_, attempt, nreq, nfail, slept>>
  /\ UNCHANGED <<fetchVars, transVars, dateVars, boxVars, lookVars>>

\* data = response.json().get("response", {}); items = data.get("items", [])
Parse ==
  /\ lpc = "parse"
  /\ fetched' = Append(fetched, url_)
  /\ data_next' = pages[url_].next
  /\ IF pages[url_].items = <<>>
     THEN \* if not items: break
          /\ lpc' = "sort"
          /\ UNCHANGED output
     ELSE /\ output' = output \o ExtractAll(pages[url_].items, info)
          /\ lpc' = "while"
  /\ UNCHANGED <<pages, info, url_, attempt, nreq, nfail, slept>>
  /\ UNCHANGED <<fetchVars, transVars, dateVars, boxVars, lookVars>>

\* if isinstance(info, list) and info != "all": output = sorted(output)
SortOutput ==
  /\ lpc = "sort"
  /\ output' = IF info.isList THEN Sorted(output) ELSE output
  /\ lpc' = "returned"
  /\ UNCHANGED <<pages, info, data_next, url_, attempt, fetched, nreq,
                 nfail, slept>>
  /\ UNCHANGED <<fetchVars, transVars, dateVars, boxVars, lookVars>>

ListNext == LoopEnter \/ LoopExit \/ GetOk \/ GetFail \/ Parse \/ SortOutput

(***************************************************************************)
(* The output directory.  A path is <<kind, key>>: the kind is "dest" or   *)
(* the prefix of an intermediate file, the key is what the file name is    *)
(* built from (the raster code, or the year of the parsed date).           *)
(***************************************************************************)
TmpKinds == {"_tmp_", "_download_", "_cropped_", "_raw_", "_warp_"}

\* the raster codes of the fixture catalogs; code 0 carries no date
Codes == 0..3

FilePaths == ({"dest"} \cup TmpKinds) \X Codes

\* "absent", or what the file holds: "old" (there before the call), "raw"
\* (a downloaded source), "cropped" (a warp result, unscaled), "partial"
\* (left by a write that failed), "final" (cleaned and scaled)
EmptyDir == [p \in FilePaths |-> "absent"]

Exists(path) == fs[path] # "absent"

\* the fetch operation is not running (collect_responses called directly)
NoFetch ==
  /\ variant = "none"
  /\ gis = FALSE
  /\ start_dt = 0
  /\ end_dt = 0
  /\ fpc = "none"
  /\ selected = <<>>
  /\ idx = 0
  /\ dir = FALSE
  /\ fs = EmptyDir
  /\ net = 0
  /\ amount = 0
  /\ results = <<>>
  /\ ret = "none"

\* no transform is running
NoTransform ==
  /\ tpc = "none"
  /\ scale = 0
  /\ src_arr = <<>>
  /\ arr = <<>>

\* a calendar date, and the value None in its place
Date(y, m, d) == [ok |-> TRUE, y |-> y, m |-> m, d |-> d]
NoDate == [ok |-> FALSE, y |-> 0, m |-> 0, d |-> 0]

\* no parser and no selection loop is running
NoDates ==
  /\ code_ = <<>>
  /\ ppc = "none"
  /\ token = <<>>
  /\ fmt_i = 0
  /\ parsed = NoDate
  /\ all_rasters = <<>>
  /\ ri = 0
  /\ spc = "none"

\* no caller gave a bounding box
NoBox ==
  /\ lonlim = <<0, 0>>
  /\ latlim = <<0, 0>>

\* no lookup in the scale-factor table is under way; level has the
\* default of every entry point, level=1
NoLookup ==
  /\ scale_factors = <<>>
  /\ mapset_code = <<>>
  /\ nlook = 0
  /\ level = 1

\* collect_responses has returned (line 80, or line 56 after the retries)
ListDone == lpc \in {"returned", "returned_partial"}

(***************************************************************************)
(* Properties of collect_responses.                                        *)
(***************************************************************************)
\* the pages from p on along the rel="next" links; <<0>> marks a cycle
RECURSIVE ChainFrom(_, _)
ChainFrom(p, seen) ==
  IF p = 0 THEN <<>>
  ELSE IF p \in seen THEN <<0>>
  ELSE <<p>> \o ChainFrom(pages[p].next, seen \cup {p})

Chain == ChainFrom(1, {})

FiniteChain == \A k \in 1..Len(Chain) : Chain[k] # 0

RECURSIVE TuplesOf(_)
TuplesOf(ps) ==
  IF ps = <<>> THEN <<>>
  ELSE ExtractAll(pages[Head(ps)].items, info) \o TuplesOf(Tail(ps))

Count(s, x) == Cardinality({k \in DOMAIN s : s[k] = x})

SamePopulation(s, t) ==
  /\ Len(s) = Len(t)
  /\ \A k \in DOMAIN s : Count(s, s[k]) = Count(t, s[k])

IsSortedSeq(s) == \A k \in 1..(Len(s) - 1) : TupleLeq(s[k], s[k + 1])

\* the case of C6: named fields, a finite chain of non-empty pages, no failure
C6Case ==
  /\ info.isList
  /\ FiniteChain
  /\ \A k \in 1..Len(Chain) : pages[Chain[k]].items # <<>>
  /\ nfail = 0

\* C6: over a finite chain of non-empty pages with every fetch succeeding,
\* collect_responses with named fields returns every item of every page
\* exactly once (as many tuples as items, none lost or duplicated), in
\* lexicographic order of the tuples.
C6_AllItemsOnceSorted ==
  (ListDone /\ C6Case) =>
     /\ SamePopulation(output, TuplesOf(Chain))
     /\ IsSortedSeq(output)

\* a two-page chain whose items arrive out of order and repeat across pages
C6_Witness ==
  /\ ListDone /\ C6Case
  /\ Len(Chain) = 2
  /\ Len(output) = 3
  /\ output # TuplesOf(Chain)
  /\ \E k \in DOMAIN output : Count(output, output[k]) = 2

\* GET requests issued so far for the page being requested
PageRequests ==
  attempt + (IF lpc \in {"parse", "returned_partial"} THEN 1 ELSE 0)

\* C7: each page fetch is attempted at most 3 times; the delay of 2 is
\* waited once after every failed attempt that is followed by another
\* attempt and never otherwise; after the third failure for one page the
\* function returns the items accumulated from the earlier pages.
C7_RetryPolicy ==
  /\ (lpc \in {"get", "parse", "returned_partial"}) => PageRequests <= 3
  /\ nreq = Len(fetched) + nfail + (IF lpc = "parse" THEN 1 ELSE 0)
  /\ slept = 2 * (nfail - (IF lpc = "returned_partial" THEN 1 ELSE 0))
  /\ (lpc = "returned_partial") =>
        /\ PageRequests = 3
        /\ output = TuplesOf(fetched)

\* the second page fails three times after the first page delivered items
C7_Witness ==
  /\ lpc = "returned_partial"
  /\ Len(fetched) = 1
  /\ nfail = 3
  /\ slept = 4
  /\ Len(output) = 2

\* C8 (as claimed): with named fields the returned list is sorted on every
\* return path, the partial result after exhausted retries included.
C8_SortedOnEveryReturn ==
  (ListDone /\ info.isList) => IsSortedSeq(output)

\* the pages received are the rel="next" chain from the start URL
FollowsLinks ==
  /\ \A k \in DOMAIN fetched :
        fetched[k] = IF k = 1 THEN 1 ELSE pages[fetched[k - 1]].next
  /\ (lpc \in {"get", "parse"}) =>
        url_ = IF fetched = <<>> THEN 1
               ELSE pages[fetched[Len(fetched)]].next

LastPage(p) == pages[p].next = 0 \/ pages[p].items = <<>>

\* C9: pages are requested in next-link order from the given URL, and once
\* a page without rel="next" link or without items has been received no
\* further request is issued.
C9_StopsAtLastPage ==
  /\ FollowsLinks
  /\ \A k \in DOMAIN fetched :
        LastPage(fetched[k]) =>
           /\ k = Len(fetched)
           /\ lpc \in {"while", "sort", "returned"}

\* the traversal stopped at a page that has a next link but no items
C9_Witness ==
  /\ lpc = "returned"
  /\ Len(fetched) = 2
  /\ pages[fetched[2]].items = <<>>
  /\ pages[fetched[2]].next # 0
  /\ nreq = 2 + nfail

\* C28: the retry budget is per page.  Every page starts with a fresh
\* attempt counter whatever the number of failures so far; a first or a
\* second failure of a page is followed by another request for the same
\* page; a page that is received is processed the same way whether or not
\* it failed before; and the traversal gives up only on the third failure
\* of one page.
C28_BudgetPerPage ==
  [][ /\ (lpc = "while" /\ lpc' = "get") => attempt' = 0
      /\ (lpc = "get" /\ nfail' = nfail + 1 /\ attempt < 2) =>
            (lpc' = "get" /\ url_' = url_ /\ output' = output)
      /\ (lpc = "get" /\ nreq' = nreq + 1 /\ nfail' = nfail) =>
            lpc' = "parse"
      /\ (lpc = "parse" /\ lpc' # "parse") =>
            /\ fetched' = Append(fetched, url_)
            /\ output' = output \o ExtractAll(pages[url_].items, info)
      /\ (lpc = "get" /\ lpc' = "returned_partial") => attempt = 2
    ]_vars

\* both pages failed twice before they were received, and the traversal
\* ended with the items of both
C28_Witness ==
  /\ lpc = "returned"
  /\ fetched = <<1, 2>>
  /\ nfail = 4
  /\ nreq = 6
  /\ SamePopulation(output, TuplesOf(Chain))
  /\ output # <<>>

\* C31 (as claimed): on every server, one whose next links lead back to
\* a page already visited included, a traversal issues at most 3 GET
\* requests for each distinct page URL.
C31_RequestsBounded == nreq <= 3 * NPages

(***************************************************************************)
(* SpecList: collect_responses called on the first page of any server.     *)
(***************************************************************************)
InitList ==
  /\ pages \in Catalogs
  /\ info \in { InfoList(<<"code", "downloadUrl">>), InfoList(<<"code">>),
                InfoAll }
  /\ lpc = "while"
  /\ data_next = 1
  /\ url_ = 0
  /\ attempt = 0
  /\ output = <<>>
  /\ fetched = <<>>
  /\ nreq = 0
  /\ nfail = 0
  /\ slept = 0
  /\ NoFetch
  /\ NoTransform
  /\ NoDates
  /\ NoBox
  /\ NoLookup

SpecList == InitList /\ [][ListNext]_vars

(***************************************************************************)
(* The fetch operations.  variant names the entry point:                   *)
(*   "v3"   WaPOR_v3._download_mapset   "idek"  I_dekadal.main             *)
(*   "aet"  AET_dekadal.main            "pcpy"  PCP_yearly.main            *)
(*   "rety" RET_yearly.main                                                *)
(***************************************************************************)
Variants == {"v3", "aet", "rety", "idek", "pcpy"}

\* every entry point; PCP_monthly.main ("pcpm") ends at its first statement
EntryPoints == Variants \cup {"pcpm"}

\* the entry points that keep the progress counter `amount`
WithProgress == {"aet", "rety", "idek"}

\* the fixture's calendar: dates are day numbers, two to a year
Year(d) == (d + 1) \div 2

\* _parse_date_from_code on the fixture's codes: code 0 parses to no date
\* (the function returns None), any other code c to the date c; the
\* parsers themselves are modelled on strings further down
HasDate(code) == code # 0
ParsedDate(code) == code

\* elements of selected: (dt, code, url), in WaPOR_v3 (code, url)
DtOf(e) == e[1]
CodeOf(e) == e[Len(e) - 1]
UrlOf(e) == e[Len(e)]

\* for code, url in all_rasters: ... selected.append((dt, code, url))
RECURSIVE FilterByDate(_, _, _)
FilterByDate(all, s, e) ==
  IF all = <<>> THEN <<>>
  ELSE LET code == Head(all)[1]
           url  == Head(all)[2]
           rest == FilterByDate(Tail(all), s, e)
       IN  IF ~HasDate(code) THEN rest
           ELSE IF ParsedDate(code) >= s /\ ParsedDate(code) <= e
                THEN << <<ParsedDate(code), code, url>> >> \o rest
                ELSE rest

\* selected.sort(key=lambda x: x[0]): stable, on the date alone
RECURSIVE InsertByDate(_, _)
InsertByDate(x, s) ==
  IF s = <<>> THEN <<x>>
  ELSE IF DtOf(x) < DtOf(Head(s)) THEN <<x>> \o s
  ELSE <<Head(s)>> \o InsertByDate(x, Tail(s))

RECURSIVE SortByDate(_)
SortByDate(s) ==
  IF s = <<>> THEN <<>>
  ELSE InsertByDate(s[Len(s)], SortByDate(SubSeq(s, 1, Len(s) - 1)))

\* waporv3_api.filter_rasters_by_date: a code whose date does not parse is
\* kept ("include it anyway"), the others are kept when inside the window
RECURSIVE FilterRastersByDate(_, _, _)
FilterRastersByDate(all, s, e) ==
  IF all = <<>> THEN <<>>
  ELSE LET code == Head(all)[1]
           rest == FilterRastersByDate(Tail(all), s, e)
       IN  IF ~HasDate(code) THEN <<Head(all)>> \o rest
           ELSE IF s <= ParsedDate(code) /\ ParsedDate(code) <= e
                THEN <<Head(all)>> \o rest
                ELSE rest

\* the list the batch loop of each entry point iterates over
SelectFor(v, all, s, e) ==
  CASE v = "v3"   -> FilterRastersByDate(all, s, e)
    [] v = "pcpy" -> Sorted(FilterByDate(all, s, e))
    [] OTHER      -> SortByDate(FilterByDate(all, s, e))

Cur == selected[idx]

\* what the destination file name of the selected entry e is built from:
\* dt.year in RET_yearly and PCP_yearly, the raster code elsewhere
DestKeyOf(v, e) ==
  IF v \in {"rety", "pcpy"} THEN Year(DtOf(e)) ELSE CodeOf(e)
\* what its intermediate file names are built from
TmpKeyOf(v, e) == IF v = "pcpy" THEN Year(DtOf(e)) ELSE CodeOf(e)

DestKey == DestKeyOf(variant, Cur)
TmpKey == TmpKeyOf(variant, Cur)

Dest == <<"dest", DestKey>>
Tmp(kind) == <<kind, TmpKey>>

\* the entry point up to its call of collect_responses
Begin ==
  /\ fpc = "start"
  /\ variant # "pcpm"
  /\ fpc' = "listing"
  /\ dir' = IF variant = "v3" THEN TRUE ELSE dir
  /\ ListEntry(1)
  /\ UNCHANGED <<pages, info, transVars, dateVars, boxVars, lookVars>>
  /\ UNCHANGED <<variant, gis, start_dt, end_dt, selected, idx, fs, net,
                 amount, results, ret>>

\* PCP_monthly.main: print("DEBUG URL =", url) reads url, a local variable
\* of main (assigned by its for loops), before any assignment
PcpmMain ==
  /\ fpc = "start"
  /\ variant = "pcpm"
  /\ ret' = "UnboundLocalError"
  /\ fpc' = "done"
  /\ UNCHANGED <<variant, gis, start_dt, end_dt, selected, idx, dir, fs, net,
                 amount, results>>
  /\ UNCHANGED <<listVars, transVars, dateVars, boxVars, lookVars>>

\* from the return of collect_responses to the head of the batch loop
Select ==
  /\ fpc = "listing"
  /\ ListDone
  /\ LET sel == SelectFor(variant, output, start_dt, end_dt)
     IN  IF \/ (variant \in {"v3", "idek"} /\ output = <<>>)
            \/ sel = <<>>
         THEN \* return None
              /\ ret' = "None"
              /\ fpc' = "done"
              /\ UNCHANGED <<selected, idx, dir, amount>>
         ELSE /\ selected' = sel
              /\ idx' = 1
              /\ dir' = TRUE
              /\ amount' = 0
              /\ fpc' = "iter"
              /\ UNCHANGED ret
  /\ UNCHANGED <<variant, gis, start_dt, end_dt, fs, net, results>>
  /\ UNCHANGED <<listVars, transVars, dateVars, boxVars, lookVars>>

\* the loop is exhausted: return out_dir (_download_mapset returns nothing)
Finish ==
  /\ fpc = "iter"
  /\ idx > Len(selected)
  /\ ret' = IF variant = "v3" THEN "None" ELSE "out_dir"
  /\ fpc' = "done"
  /\ UNCHANGED <<variant, gis, start_dt, end_dt, selected, idx, dir, fs,
                 net, amount, results>>
  /\ UNCHANGED <<listVars, transVars, dateVars, boxVars, lookVars>>

\* the iteration ends and the loop goes to the next asset
EndIteration(outcome) ==
  /\ results' = Append(results, outcome)
  /\ amount' = IF variant \in WithProgress THEN amount + 1 ELSE amount
  /\ idx' = idx + 1
  /\ fpc' = "iter"
  /\ UNCHANGED ret

\* an exception leaves the entry point
Raise ==
  /\ results' = Append(results, "raised")
  /\ ret' = "raised"
  /\ fpc' = "done"
  /\ UNCHANGED <<amount, idx>>

\* the iteration goes on with its next step
Step(next) ==
  /\ fpc' = next
  /\ UNCHANGED <<results, amount, idx, ret>>

\* if os.path.exists(out_path): ... continue
SkipExisting ==
  /\ fpc = "iter"
  /\ idx <= Len(selected)
  /\ variant # "pcpy"
  /\ Exists(Dest)
  /\ EndIteration("skipped")
  /\ UNCHANGED <<variant, gis, start_dt, end_dt, selected, dir, fs, net>>
  /\ UNCHANGED <<listVars, transVars, dateVars, boxVars, lookVars>>

\* the destination is absent (PCP_yearly does not look): start the work
StartAsset ==
  /\ fpc = "iter"
  /\ idx <= Len(selected)
  /\ variant = "pcpy" \/ ~Exists(Dest)
  /\ Step(CASE variant \in {"idek", "pcpy"} -> "download" [] OTHER -> "warp")
  /\ UNCHANGED <<variant, gis, start_dt, end_dt, selected, dir, fs, net>>
  /\ UNCHANGED <<listVars, transVars, dateVars, boxVars, lookVars>>

Frame == UNCHANGED <<variant, gis, start_dt, end_dt, selected, dir>>
           /\ UNCHANGED <<listVars, transVars, dateVars, boxVars, lookVars>>

Left == {"absent", "partial"}

(*------------------------ WaPOR_v3._download_mapset ----------------------*)
\* ds = gdal.Warp(out_path, "/vsicurl/" + url): the warp writes out_path
V3Warp ==
  /\ fpc = "warp" /\ variant = "v3"
  /\ net' = net + 1
  /\ \/ \* a dataset comes back
        /\ fs' = [fs EXCEPT ![Dest] = "cropped"]
        /\ IF gis THEN Step("transform") ELSE EndIteration("written_unscaled")
     \/ \* ds is None: print, continue
        \E left \in Left :
          /\ fs' = [fs EXCEPT ![Dest] = left]
          /\ EndIteration("warp_failed")
     \/ \* except Exception: remove out_path if it exists, continue
        /\ fs' = [fs EXCEPT ![Dest] = "absent"]
        /\ EndIteration("error")
  /\ Frame

\* gis.GetGeoInfo, gis.OpenAsArray, np.where, scale (inner try)
V3Transform ==
  /\ fpc = "transform" /\ variant = "v3"
  /\ \/ Step("persist")
     \/ \* except Exception: print a warning
        EndIteration("processing_failed")
  /\ UNCHANGED <<fs, net>>
  /\ Frame

\* gis.CreateGeoTiff(out_path, ...) (inner try)
V3Persist ==
  /\ fpc = "persist" /\ variant = "v3"
  /\ \/ /\ fs' = [fs EXCEPT ![Dest] = "final"]
        /\ EndIteration("written")
     \/ \* except Exception: print a warning
        \E c \in {"cropped", "partial"} :
          /\ fs' = [fs EXCEPT ![Dest] = c]
          /\ EndIteration("processing_failed")
  /\ UNCHANGED net
  /\ Frame

(*------------------- AET_dekadal.main, RET_yearly.main -------------------*)
\* gdal.Warp(tmp_path, "/vsicurl/" + url): outside any try, result unchecked
AetWarp ==
  /\ fpc = "warp" /\ variant \in {"aet", "rety"}
  /\ net' = net + 1
  /\ \/ /\ fs' = [fs EXCEPT ![Tmp("_tmp_")] = "cropped"]
        /\ Step("transform")
     \/ \* None comes back and is not looked at
        \E left \in Left :
          /\ fs' = [fs EXCEPT ![Tmp("_tmp_")] = left]
          /\ Step("transform")
     \/ \* the warp raises
        \E left \in Left :
          /\ fs' = [fs EXCEPT ![Tmp("_tmp_")] = left]
          /\ Raise
  /\ Frame

\* gis.GetGeoInfo(tmp_path), gis.OpenAsArray, np.where, scale: no try
AetTransform ==
  /\ fpc = "transform" /\ variant \in {"aet", "rety"}
  /\ \/ /\ fs[Tmp("_tmp_")] = "cropped"
        /\ Step("persist")
     \/ Raise
  /\ UNCHANGED <<fs, net>>
  /\ Frame

\* gis.CreateGeoTiff(out_path, ...); os.remove(tmp_path); amount += 1
AetPersist ==
  /\ fpc = "persist" /\ variant \in {"aet", "rety"}
  /\ \/ /\ fs' = [fs EXCEPT ![Dest] = "final", ![Tmp("_tmp_")] = "absent"]
        /\ EndIteration("written")
     \/ \E left \in Left :
          /\ fs' = [fs EXCEPT ![Dest] = left]
          /\ Raise
  /\ UNCHANGED net
  /\ Frame

(*----------------------------- I_dekadal.main ----------------------------*)
\* download_success = _download_file(url, tmp_download)
IdekDownload ==
  /\ fpc = "download" /\ variant = "idek"
  /\ net' = net + 1
  /\ \/ /\ fs' = [fs EXCEPT ![Tmp("_download_")] = "raw"]
        /\ Step("warp")
     \/ \* _download_file removes what it wrote and returns False
        /\ fs' = [fs EXCEPT ![Tmp("_download_")] = "absent"]
        /\ EndIteration("download_failed")
  /\ Frame

\* ds = gdal.Warp(tmp_cropped, tmp_download)
IdekWarp ==
  /\ fpc = "warp" /\ variant = "idek"
  /\ \/ /\ fs' = [fs EXCEPT ![Tmp("_cropped_")] = "cropped"]
        /\ Step("transform")
     \/ \* ds is None: only tmp_download is removed
        \E left \in Left :
          /\ fs' = [fs EXCEPT ![Tmp("_download_")] = "absent",
                              ![Tmp("_cropped_")] = left]
          /\ EndIteration("warp_failed")
     \/ \* except Exception: both are removed
        /\ fs' = [fs EXCEPT ![Tmp("_download_")] = "absent",
                            ![Tmp("_cropped_")] = "absent"]
        /\ EndIteration("warp_failed")
  /\ UNCHANGED net
  /\ Frame

\* gis.GetGeoInfo(tmp_cropped) ... scale, in the try of step 3
IdekTransform ==
  /\ fpc = "transform" /\ variant = "idek"
  /\ \/ /\ Step("persist")
        /\ UNCHANGED fs
     \/ \* except: remove out_path; then the temporary files
        /\ fs' = [fs EXCEPT ![Dest] = "absent",
                            ![Tmp("_download_")] = "absent",
                            ![Tmp("_cropped_")] = "absent"]
        /\ EndIteration("processing_failed")
  /\ UNCHANGED net
  /\ Frame

\* gis.CreateGeoTiff(out_path, ...), then the temporary files are removed
IdekPersist ==
  /\ fpc = "persist" /\ variant = "idek"
  /\ \/ /\ fs' = [fs EXCEPT ![Dest] = "final",
                            ![Tmp("_download_")] = "absent",
                            ![Tmp("_cropped_")] = "absent"]
        /\ EndIteration("written")
     \/ \* except: remove out_path; then the temporary files
        /\ fs' = [fs EXCEPT ![Dest] = "absent",
                            ![Tmp("_download_")] = "absent",
                            ![Tmp("_cropped_")] = "absent"]
        /\ EndIteration("processing_failed")
  /\ UNCHANGED net
  /\ Frame

(*----------------------------- PCP_yearly.main ---------------------------*)
\* urllib.request.urlretrieve(url, tmp_raw), in try/finally without except
PcpyDownload ==
  /\ fpc = "download" /\ variant = "pcpy"
  /\ net' = net + 1
  /\ \/ /\ fs' = [fs EXCEPT ![Tmp("_raw_")] = "raw"]
        /\ Step("open")
     \/ \* finally removes tmp_raw, the exception goes on
        /\ fs' = [fs EXCEPT ![Tmp("_raw_")] = "absent"]
        /\ Raise
  /\ Frame

\* the raster every asset of the fixture holds: its geotransform (origin
\* x, pixel width, 0, origin y, 0, pixel height) and its size in pixels;
\* it is north-up and spans 0..2 in both directions
Raster == [gt |-> <<0, 1, 0, 2, 0, -1>>, RasterXSize |-> 2, RasterYSize |-> 2]

\* the extent test with the comparisons made non-strict
OutsideExtent_NonStrict(lon, lat, src) ==
  LET gt   == src.gt
      xmin == gt[1]
      ymax == gt[4]
      px   == gt[2]
      py   == gt[6]
      xmax == xmin + src.RasterXSize * px
      ymin == ymax + src.RasterYSize * py
  IN  lon[2] <= xmin \/ lon[1] >= xmax \/ lat[2] <= ymin \/ lat[1] >= ymax

\* if lonlim[1] < xmin or lonlim[0] > xmax or latlim[1] < ymin or
\* latlim[0] > ymax, with the extent computed from the geotransform
\* (Python's gt[0], gt[3], gt[1], gt[5] are gt[1], gt[4], gt[2], gt[6])
OutsideExtent(lon, lat, src) ==
  LET gt   == src.gt
      xmin == gt[1]
      ymax == gt[4]
      px   == gt[2]
      py   == gt[6]
      xmax == xmin + src.RasterXSize * px
      ymin == ymax + src.RasterYSize * py
  IN  lon[2] < xmin \/ lon[1] > xmax \/ lat[2] < ymin \/ lat[1] > ymax

\* src = gdal.Open(tmp_raw) and the extent test
PcpyOpen ==
  /\ fpc = "open" /\ variant = "pcpy"
  /\ \/ /\ ~OutsideExtent(lonlim, latlim, Raster)
        /\ Step("warp")
        /\ UNCHANGED fs
     \/ \* src is None: continue through finally
        /\ fs' = [fs EXCEPT ![Tmp("_raw_")] = "absent"]
        /\ EndIteration("open_failed")
     \/ \* the box is outside the raster: continue through finally
        /\ OutsideExtent(lonlim, latlim, Raster)
        /\ fs' = [fs EXCEPT ![Tmp("_raw_")] = "absent"]
        /\ EndIteration("out_of_extent")
  /\ UNCHANGED net
  /\ Frame

\* ds = gdal.Warp(tmp_warp, src); finally removes tmp_raw
PcpyWarp ==
  /\ fpc = "warp" /\ variant = "pcpy"
  /\ \/ /\ fs' = [fs EXCEPT ![Tmp("_warp_")] = "cropped",
                            ![Tmp("_raw_")] = "absent"]
        /\ Step("transform")
     \/ \* ds is None: continue through finally
        \E left \in Left :
          /\ fs' = [fs EXCEPT ![Tmp("_warp_")] = left,
                              ![Tmp("_raw_")] = "absent"]
          /\ EndIteration("warp_failed")
     \/ \* the warp raises: finally, then the exception goes on
        \E left \in Left :
          /\ fs' = [fs EXCEPT ![Tmp("_warp_")] = left,
                              ![Tmp("_raw_")] = "absent"]
          /\ Raise
  /\ UNCHANGED net
  /\ Frame

\* gis.GetGeoInfo(tmp_warp) ... scale: after the try, unprotected
PcpyTransform ==
  /\ fpc = "transform" /\ variant = "pcpy"
  /\ \/ Step("persist")
     \/ Raise
  /\ UNCHANGED <<fs, net>>
  /\ Frame

\* gis.CreateGeoTiff(out_path, ...); os.remove(tmp_warp)
PcpyPersist ==
  /\ fpc = "persist" /\ variant = "pcpy"
  /\ \/ /\ fs' = [fs EXCEPT ![Dest] = "final", ![Tmp("_warp_")] = "absent"]
        /\ EndIteration("written")
     \/ \E c \in {fs[Dest], "partial"} :
          /\ fs' = [fs EXCEPT ![Dest] = c]
          /\ Raise
  /\ UNCHANGED net
  /\ Frame

BatchNext ==
  \/ SkipExisting \/ StartAsset \/ Finish
  \/ V3Warp \/ V3Transform \/ V3Persist
  \/ AetWarp \/ AetTransform \/ AetPersist
  \/ IdekDownload \/ IdekWarp \/ IdekTransform \/ IdekPersist
  \/ PcpyDownload \/ PcpyOpen \/ PcpyWarp \/ PcpyTransform \/ PcpyPersist

(*--------------------------- KeyboardInterrupt ---------------------------*)
\* the steps of an iteration between its existence test and its end
AssetSteps == {"download", "open", "warp", "transform", "persist"}

\* the file the step the iteration is at writes; the steps "open" and
\* "transform" write none and have the destination in this place
WrittenNow ==
  CASE fpc = "download" ->
         Tmp(IF variant = "pcpy" THEN "_raw_" ELSE "_download_")
    [] fpc = "warp" /\ variant \in {"aet", "rety"} -> Tmp("_tmp_")
    [] fpc = "warp" /\ variant = "idek" -> Tmp("_cropped_")
    [] fpc = "warp" /\ variant = "pcpy" -> Tmp("_warp_")
    [] OTHER -> Dest

\* the caller's interrupt arrives while an asset is processed.  It is a
\* KeyboardInterrupt, which no `except Exception` clause catches: the step
\* under way stops with its file as it was or half written, the finally
\* block of PCP_yearly removes tmp_raw, and the exception leaves the entry
\* point.
Interrupt ==
  /\ fpc \in AssetSteps
  /\ \E c \in (IF fpc \in {"download", "warp", "persist"}
               THEN {fs[WrittenNow], "partial"}
               ELSE {fs[WrittenNow]}) :
       LET cut == [fs EXCEPT ![WrittenNow] = c]
       IN  fs' = IF variant = "pcpy" /\ fpc \in {"download", "open", "warp"}
                 THEN [cut EXCEPT ![Tmp("_raw_")] = "absent"]
                 ELSE cut
  /\ ret' = "KeyboardInterrupt"
  /\ fpc' = "done"
  /\ UNCHANGED <<results, amount, idx, net>>
  /\ Frame

(***************************************************************************)
(* Spec: a fetch operation called on a fixture catalog of two pages, with  *)
(* an output directory that may hold results of an earlier run.            *)
(***************************************************************************)
FirstPages == { << Item(2, 2), Item(1, 1) >> }
SecondPages == { << Item(3, 3) >>, << Item(0, 4) >> }

FetchCatalogs ==
  { c \in [PageIds -> [items : FirstPages \cup SecondPages \cup {<<>>},
                       next : 0..NPages]] :
      /\ c[1].items \in FirstPages /\ c[1].next = 2
      /\ c[2].items \in SecondPages /\ c[2].next = 0
      /\ \A p \in PageIds : p > 2 => c[p] = [items |-> <<>>, next |-> 0] }

\* the windows of the fixture calls; one has its start after its end, one
\* holds a single date
Windows == { <<1, 3>>, <<2, 3>>, <<4, 4>>, <<3, 1>>, <<3, 3>> }

\* the box of the fixture calls of Spec: it covers the raster
CoveringBox == [lonlim |-> <<0, 2>>, latlim |-> <<0, 2>>]

\* the state at the call of an entry point, for the given catalogs,
\* windows, sets of destination files left by an earlier run, and boxes
FetchInit(catalogs, windows, olds, boxes) ==
  /\ pages \in catalogs
  /\ info = InfoList(<<"code", "downloadUrl">>)
  /\ lpc = "idle"
  /\ data_next = 0
  /\ url_ = 0
  /\ attempt = 0
  /\ output = <<>>
  /\ fetched = <<>>
  /\ nreq = 0
  /\ nfail = 0
  /\ slept = 0
  /\ variant \in EntryPoints
  /\ gis \in (IF variant = "v3" THEN BOOLEAN ELSE {TRUE})
  /\ \E w \in windows : start_dt = w[1] /\ end_dt = w[2]
  /\ \E old \in olds :
       /\ fs = [p \in FilePaths |->
                  IF p[1] = "dest" /\ p[2] \in old THEN "old" ELSE "absent"]
       /\ dir = (old # {})
  /\ \E b \in boxes : lonlim = b.lonlim /\ latlim = b.latlim
  /\ fpc = "start"
  /\ selected = <<>>
  /\ idx = 0
  /\ net = 0
  /\ amount = 0
  /\ results = <<>>
  /\ ret = "running"
  /\ NoTransform
  /\ NoDates
  /\ NoLookup

Init == FetchInit(FetchCatalogs, Windows, SUBSET {1, 2}, {CoveringBox})

Next == Begin \/ PcpmMain \/ ListNext \/ Select \/ BatchNext

Spec == Init /\ [][Next]_vars

\* the same calls with a caller who may interrupt the processing of an asset
NextInterrupt == Next \/ Interrupt

SpecInterrupt == Init /\ [][NextInterrupt]_vars

(***************************************************************************)
(* SpecBox: the fetch operations called with any box of the fixture: the   *)
(* covering one, boxes that touch the raster's extent at an edge, boxes    *)
(* outside it on each side, and boxes given with a minimum that is not     *)
(* below the maximum.                                                      *)
(***************************************************************************)
Box(lon, lat) == [lonlim |-> lon, latlim |-> lat]

Boxes ==
  { CoveringBox,
    Box(<<2, 3>>, <<0, 2>>), Box(<<-1, 0>>, <<0, 2>>),
    Box(<<0, 2>>, <<2, 3>>), Box(<<0, 2>>, <<-1, 0>>),
    Box(<<3, 4>>, <<0, 2>>), Box(<<-2, -1>>, <<0, 2>>),
    Box(<<0, 2>>, <<3, 4>>), Box(<<0, 2>>, <<-2, -1>>),
    Box(<<2, 0>>, <<0, 2>>), Box(<<1, 1>>, <<0, 2>>),
    Box(<<0, 2>>, <<2, 0>>) }

BoxCatalogs == { c \in FetchCatalogs : c[2].items = << Item(3, 3) >> }

InitBox == FetchInit(BoxCatalogs, { <<1, 3>> }, { {}, {1} }, Boxes)

SpecBox == InitBox /\ [][Next]_vars

(***************************************************************************)
(* Properties of the batch loops.                                          *)
(***************************************************************************)
\* the loop stands at the head of an iteration for an asset
AtAsset == fpc = "iter" /\ idx <= Len(selected)

\* C1 (as claimed): in every pipeline, an iteration that starts with its
\* destination file present issues no network call, leaves the directory
\* as it is and moves on to the next asset.
C1_ExistingIsSkipped ==
  [][ (AtAsset /\ Exists(Dest)) =>
        /\ net' = net
        /\ fs' = fs
        /\ fpc' = "iter"
        /\ idx' = idx + 1 ]_vars

\* no intermediate file is in the output directory
NoIntermediate == \A p \in FilePaths : p[1] \in TmpKinds => fs[p] = "absent"

\* C2 (as claimed): whenever the processing of an asset has ended, by any
\* exit, none of its intermediate files remains in the output directory.
C2_NoIntermediateLeft ==
  (fpc \in {"iter", "done"}) => NoIntermediate

\* C3 (as claimed): no failure of an asset aborts the batch: the entry
\* point never raises, and when it ends every selected asset has had its
\* iteration.
C3_BatchNeverAborts ==
  /\ ret # "raised"
  /\ (fpc = "done" /\ selected # <<>>) => Len(results) = Len(selected)

\* the step ends the asset's processing with an exception of the transform
\* or of the persist step
ProcessingFails ==
  /\ fpc \in {"transform", "persist"}
  /\ results' \in { Append(results, "processing_failed"),
                    Append(results, "raised") }

\* C4 (as claimed): when the transform or the persist step of an asset
\* raises, the asset's processing ends with no file at its destination path
\* and the batch goes on to the next asset.
C4_NoDestinationAfterFailure ==
  [][ ProcessingFails =>
        /\ fs'[Dest] = "absent"
        /\ fpc' = "iter"
        /\ idx' = idx + 1 ]_vars

\* C10 (as claimed): when the listing gave up on a page, first or later,
\* the caller aborts the fetch: nothing is selected, downloaded, cropped
\* or written.
C10_AbortWhenListingGaveUp ==
  (lpc = "returned_partial") =>
     /\ selected = <<>>
     /\ net = 0
     /\ results = <<>>

\* C11 (as claimed): a fetch called with a window whose start date is later
\* than its end date is rejected before any network call: no catalog
\* listing request and no asset download is issued.
C11_InvalidWindowRejected ==
  (fpc # "none" /\ start_dt > end_dt) => (nreq = 0 /\ net = 0)

\* C20 (as claimed): the fetch operation returns the output directory path
\* when at least one asset was selected and the batch ran to its end, and
\* returns None without raising when it ends with nothing selected (the
\* catalog unreachable, or no asset in the window).
C20_ReturnValue ==
  (fpc = "done") =>
     /\ (selected # <<>> /\ idx > Len(selected)) => ret = "out_dir"
     /\ (selected = <<>>) => ret = "None"

\* the codes the catalog lists, and those of them whose date is in the
\* window of the call
ListedCodes ==
  UNION { { pages[p].items[k].code : k \in DOMAIN pages[p].items } :
          p \in PageIds }

InWindowCodes ==
  { c \in ListedCodes : HasDate(c) /\ start_dt <= ParsedDate(c)
                                    /\ ParsedDate(c) <= end_dt }

\* C21 (as claimed): a fetch of L1-PCP-M (PCP_monthly.main, or the
\* PCP_monthly wrapper of WaPOR_v3) on a catalog whose assets all carry a
\* date, with a window that holds exactly one of them and with no step
\* failing, ends with exactly one file written: the destination of that
\* asset, cleaned and scaled.
C21_MonthlyEndToEnd ==
  ( /\ variant \in {"pcpm", "v3"}
    /\ fpc = "done"
    /\ gis
    /\ \A c \in ListedCodes : HasDate(c)
    /\ Cardinality(InWindowCodes) = 1
    /\ nfail = 0
    /\ \A k \in DOMAIN results : results[k] = "written" )
  => \E c \in InWindowCodes :
       /\ fs[<<"dest", c>>] = "final"
       /\ \A p \in FilePaths :
            p # <<"dest", c>> => fs[p] \in {"absent", "old"}

\* C22 (as claimed): two distinct selected assets of one batch never have
\* the same destination path nor the same intermediate file path.
C22_DistinctPaths ==
  \A j, k \in DOMAIN selected :
     (j # k /\ CodeOf(selected[j]) # CodeOf(selected[k])) =>
        /\ DestKeyOf(variant, selected[j]) # DestKeyOf(variant, selected[k])
        /\ TmpKeyOf(variant, selected[j]) # TmpKeyOf(variant, selected[k])

\* C24 (as claimed): once the listing has come back with no asset in the
\* window, no download or warp has been issued and the output directory
\* is as it was before the call: it exists only if it held files before,
\* and it holds only those.
C24_NothingInWindowNoEffect ==
  ( /\ fpc \notin {"none", "start"}
    /\ lpc = "returned"
    /\ \A k \in DOMAIN output :
          ~(/\ HasDate(output[k][1])
            /\ start_dt <= ParsedDate(output[k][1])
            /\ ParsedDate(output[k][1]) <= end_dt) )
  => /\ net = 0
     /\ \A p \in FilePaths : fs[p] \in {"absent", "old"}
     /\ dir => \E p \in FilePaths : fs[p] = "old"

\* C23 (as claimed): after an interrupt has stopped the operation, the
\* destination path of the asset that was being processed holds neither a
\* half-written file nor a warp result that was not transformed.
C23_InterruptLeavesNoBadDestination ==
  (ret = "KeyboardInterrupt") => fs[Dest] \notin {"partial", "cropped"}

\* C32 (as claimed): in _download_mapset, when an iteration that started
\* the work on an asset ends, the destination path holds no file or the
\* cleaned and scaled one.
C32_DestinationOnlyIfTransformed ==
  [][ (variant = "v3" /\ fpc \in {"warp", "transform", "persist"}
                      /\ idx' = idx + 1) =>
        fs'[Dest] \in {"absent", "final"} ]_vars

\* the box is one: minLon < maxLon and minLat < maxLat
ValidBox == lonlim[1] < lonlim[2] /\ latlim[1] < latlim[2]

\* the extent of the source raster, from its corner and its size
Extent ==
  [xmin |-> Raster.gt[1],
   xmax |-> Raster.gt[1] + Raster.RasterXSize * Raster.gt[2],
   ymin |-> Raster.gt[4] + Raster.RasterYSize * Raster.gt[6],
   ymax |-> Raster.gt[4]]

\* the box and the extent, both closed rectangles with integer corners,
\* have a point in common
Intersects ==
  \E x \in lonlim[1]..lonlim[2], y \in latlim[1]..latlim[2] :
     /\ Extent.xmin <= x /\ x <= Extent.xmax
     /\ Extent.ymin <= y /\ y <= Extent.ymax

\* C25: in PCP_yearly, an asset whose raster was opened is skipped as out
\* of extent exactly when the box has no point in common with the
\* raster's extent, a box that touches the extent at an edge not being
\* skipped; the skip starts no warp, leaves the destination and the warp
\* file as they were, removes the downloaded file, raises nothing and
\* goes to the next asset.
C25_OutOfExtentIsSkipped ==
  [][ (variant = "pcpy" /\ fpc = "open" /\ fpc' # "open" /\ ValidBox) =>
        /\ ~Intersects =>
              /\ fpc' = "iter"
              /\ idx' = idx + 1
              /\ ret' = ret
              /\ fs'[Dest] = fs[Dest]
              /\ fs'[Tmp("_warp_")] = fs[Tmp("_warp_")]
              /\ fs'[Tmp("_raw_")] = "absent"
        /\ Intersects =>
              results' # Append(results, "out_of_extent")
    ]_vars

\* a batch of PCP_yearly with a box beside the raster has ended normally:
\* every asset was skipped as out of extent and no file was written
C25_Witness ==
  /\ variant = "pcpy"
  /\ ValidBox /\ ~Intersects
  /\ fpc = "done"
  /\ ret = "out_dir"
  /\ Len(results) = 3
  /\ \A k \in DOMAIN results : results[k] = "out_of_extent"
  /\ \A p \in FilePaths : fs[p] = "absent"

\* C26 (as claimed): with a box that has minLon >= maxLon or
\* minLat >= maxLat no warp is started for any asset.
C26_InvalidBoxNeverWarped ==
  [][ ~ValidBox => ~(fpc = "warp" /\ fpc' # "warp") ]_vars

\* the intermediate file the download of an asset is written to
DownloadPath == Tmp(IF variant = "pcpy" THEN "_raw_" ELSE "_download_")

\* C29 (as claimed): a download that fails does not raise, leaves neither
\* the downloaded file nor a new destination file, and the batch goes to
\* the next asset.
C29_DownloadFailureAbandonsAsset ==
  [][ (fpc = "download" /\ fpc' \notin {"download", "open", "warp"}) =>
        /\ ret' = ret
        /\ fs'[DownloadPath] = "absent"
        /\ fs'[Dest] = fs[Dest]
        /\ fpc' = "iter"
        /\ idx' = idx + 1 ]_vars

\* C30 (as claimed): with progress reporting, the counter has advanced by
\* one for every iteration that has ended, by whatever exit; it never
\* exceeds the number of selected assets and equals it when the batch has
\* ended.
C30_ProgressCountsEveryAsset ==
  (variant \in WithProgress /\ selected # <<>>) =>
     /\ amount = Len(results)
     /\ amount <= Len(selected)
     /\ (fpc = "done") => amount = Len(selected)

(***************************************************************************)
(* The clean/scale transform (the same four statements in every batch      *)
(* loop).  A sample is [nan, v]: nan for NaN, else the value v in tenths.  *)
(***************************************************************************)
\* number of samples of the raster
GridLen == 3

Num(v) == [nan |-> FALSE, v |-> v]
NaN == [nan |-> TRUE, v |-> 0]

\* gdal.WarpOptions(dstNodata=-9999): the NDV that gis.GetGeoInfo reads
NDV == -9999

\* the samples of the fixture rasters: no-data (NaN after OpenAsArray with
\* nan_values=True), -5, 0 and 20
Samples == { NaN, Num(-50), Num(0), Num(200) }

\* np.where(np.isnan(Array), NDV, Array)
ReplaceNaN(a) == [k \in DOMAIN a |-> IF a[k].nan THEN Num(NDV * 10) ELSE a[k]]

\* np.where(Array < 0, 0, Array)
ClampNegative(a) ==
  [k \in DOMAIN a |-> IF ~a[k].nan /\ a[k].v < 0 THEN Num(0) ELSE a[k]]

\* Array * scale, the scale in tenths
Scaled(a, sc) ==
  [k \in DOMAIN a |-> IF a[k].nan THEN a[k] ELSE Num((a[k].v * sc) \div 10)]

TReplaceNaN ==
  /\ tpc = "read"
  /\ arr' = ReplaceNaN(arr)
  /\ tpc' = "nonan"
  /\ UNCHANGED <<scale, src_arr>>
  /\ UNCHANGED <<listVars, fetchVars, dateVars, boxVars, lookVars>>

TClampNegative ==
  /\ tpc = "nonan"
  /\ arr' = ClampNegative(arr)
  /\ tpc' = "clamped"
  /\ UNCHANGED <<scale, src_arr>>
  /\ UNCHANGED <<listVars, fetchVars, dateVars, boxVars, lookVars>>

\* arr = arr * SCALE_FACTOR; in WaPOR_v3: if scale not in (1, 1.0, None)
TScale ==
  /\ tpc = "clamped"
  /\ arr' = IF scale = 10 THEN arr ELSE Scaled(arr, scale)
  /\ tpc' = "scaled"
  /\ UNCHANGED <<scale, src_arr>>
  /\ UNCHANGED <<listVars, fetchVars, dateVars, boxVars, lookVars>>

\* gis.CreateGeoTiff(out_path, arr.astype("float32"), ...)
TPersist ==
  /\ tpc = "scaled"
  /\ tpc' = "written"
  /\ UNCHANGED <<scale, src_arr, arr>>
  /\ UNCHANGED <<listVars, fetchVars, dateVars, boxVars, lookVars>>

TransformNext == TReplaceNaN \/ TClampNegative \/ TScale \/ TPersist

\* the idle listing
NoListing ==
  /\ pages = [p \in PageIds |-> [items |-> <<>>, next |-> 0]]
  /\ info = InfoAll
  /\ lpc = "idle"
  /\ data_next = 0
  /\ url_ = 0
  /\ attempt = 0
  /\ output = <<>>
  /\ fetched = <<>>
  /\ nreq = 0
  /\ nfail = 0
  /\ slept = 0

InitTransform ==
  /\ NoListing
  /\ NoFetch
  /\ tpc = "read"
  /\ scale \in {1, 10}
  /\ src_arr \in [1..GridLen -> Samples]
  /\ arr = src_arr
  /\ NoDates
  /\ NoBox
  /\ NoLookup

SpecTransform == InitTransform /\ [][TransformNext]_vars

\* the output sample that C5 gives for the input sample s
C5Expected(s, sc) ==
  IF s.nan THEN Num(NDV * 10)
  ELSE IF s.v < 0 THEN Num(0)
  ELSE Num((s.v * sc) \div 10)

\* C5 (as claimed): sample by sample, no-data becomes the no-data sentinel,
\* a negative sample becomes 0 and any other sample v becomes v times the
\* scale factor.
C5_CleanScale ==
  (tpc = "written") =>
     \A k \in DOMAIN src_arr : arr[k] = C5Expected(src_arr[k], scale)

(***************************************************************************)
(* Strings.  A string is a sequence of one-character strings, so that the  *)
(* parsers can be modelled character by character.                         *)
(***************************************************************************)
Digits == {"0", "1", "2", "3", "4", "5", "6", "7", "8", "9"}

\* ord(c), for the characters the fixture codes are written with
Ord(c) ==
  CASE c = " " -> 32 [] c = "-" -> 45 [] c = "." -> 46
    [] c = "0" -> 48 [] c = "1" -> 49 [] c = "2" -> 50 [] c = "3" -> 51
    [] c = "4" -> 52 [] c = "5" -> 53 [] c = "6" -> 54 [] c = "7" -> 55
    [] c = "8" -> 56 [] c = "9" -> 57
    [] c = "A" -> 65 [] c = "D" -> 68 [] c = "L" -> 76 [] c = "_" -> 95
    [] c = "a" -> 97 [] c = "d" -> 100 [] c = "e" -> 101 [] c = "n" -> 110
    [] c = "o" -> 111 [] c = "t" -> 116

IsDigits(s) == \A k \in DOMAIN s : s[k] \in Digits

\* int(s) of a string of digits
RECURSIVE IntOf(_)
IntOf(s) ==
  IF s = <<>> THEN 0
  ELSE 10 * IntOf(SubSeq(s, 1, Len(s) - 1)) + (Ord(s[Len(s)]) - Ord("0"))

\* c in s
Contains(s, c) == \E k \in DOMAIN s : s[k] = c

\* s.count(c)
CountChar(s, c) == Cardinality({k \in DOMAIN s : s[k] = c})

\* s.split(sep)[-1]
AfterLast(s, sep) ==
  LET ks == {k \in DOMAIN s : s[k] = sep}
      last == IF ks = {} THEN 0 ELSE CHOOSE k \in ks : \A j \in ks : j <= k
  IN  IF last = Len(s) THEN <<>> ELSE SubSeq(s, last + 1, Len(s))

\* s[-2:]
Last2(s) == IF Len(s) <= 2 THEN s ELSE SubSeq(s, Len(s) - 1, Len(s))

\* s[:-3]
DropLast3(s) == IF Len(s) <= 3 THEN <<>> ELSE SubSeq(s, 1, Len(s) - 3)

\* s.replace(c, "")
Without(s, c) == SelectSeq(s, LAMBDA x : x # c)

\* s.split("-")
RECURSIVE Fields(_)
Fields(s) ==
  IF ~Contains(s, "-") THEN <<s>>
  ELSE LET k == CHOOSE i \in DOMAIN s :
                  s[i] = "-" /\ \A j \in 1..(i - 1) : s[j] # "-"
       IN  << IF k = 1 THEN <<>> ELSE SubSeq(s, 1, k - 1) >>
           \o Fields(IF k = Len(s) THEN <<>> ELSE SubSeq(s, k + 1, Len(s)))

\* a < b on strings: by code point, a proper prefix first
RECURSIVE StrLess(_, _)
StrLess(a, b) ==
  IF a = <<>> THEN b # <<>>
  ELSE IF b = <<>> THEN FALSE
  ELSE IF Head(a) # Head(b) THEN Ord(Head(a)) < Ord(Head(b))
  ELSE StrLess(Tail(a), Tail(b))

(***************************************************************************)
(* datetime.strptime(s, fmt) for the three formats of the parsers.  The    *)
(* directives match                                                        *)
(*    %Y  \d\d\d\d      %m  1[0-2]|0[1-9]|[1-9]                            *)
(*    %d  3[01]|[12]\d|0[1-9]|[1-9]| [1-9]                                 *)
(* the whole string has to be consumed, and the values have to form a date *)
(* of the calendar; otherwise ValueError is raised (NoDate here).          *)
(***************************************************************************)
IsYear(f) == Len(f) = 4 /\ IsDigits(f)

IsMonth(f) == Len(f) \in 1..2 /\ IsDigits(f) /\ IntOf(f) \in 1..12

IsDay(f) ==
  \/ Len(f) \in 1..2 /\ IsDigits(f) /\ IntOf(f) \in 1..31
  \/ Len(f) = 2 /\ f[1] = " " /\ f[2] \in Digits \ {"0"}

DayVal(f) == IF f[1] = " " THEN IntOf(<<f[2]>>) ELSE IntOf(f)

IsLeap(y) == y % 4 = 0 /\ (y % 100 # 0 \/ y % 400 = 0)

DaysIn(y, m) ==
  CASE m = 2 -> IF IsLeap(y) THEN 29 ELSE 28
    [] m \in {4, 6, 9, 11} -> 30
    [] OTHER -> 31

\* how many fields a format has
NFields(fmt) ==
  CASE fmt = "%Y-%m-%d" -> 3 [] fmt = "%Y-%m" -> 2 [] fmt = "%Y" -> 1

Strptime(s, fmt) ==
  LET f == Fields(s)
      n == NFields(fmt)
  IN  IF Len(f) # n \/ ~IsYear(f[1]) THEN NoDate
      ELSE IF n >= 2 /\ ~IsMonth(f[2]) THEN NoDate
      ELSE IF n = 3 /\ ~IsDay(f[3]) THEN NoDate
      ELSE LET y == IntOf(f[1])
               m == IF n >= 2 THEN IntOf(f[2]) ELSE 1
               d == IF n = 3 THEN DayVal(f[3]) ELSE 1
           IN  IF y < 1 \/ d > DaysIn(y, m) THEN NoDate ELSE Date(y, m, d)

\* a <= b on dates
DateLeq(a, b) ==
  \/ a.y < b.y
  \/ a.y = b.y /\ a.m < b.m
  \/ a.y = b.y /\ a.m = b.m /\ a.d <= b.d

DateLess(a, b) == DateLeq(a, b) /\ a # b

(***************************************************************************)
(* The date parsers: _parse_date_from_code of the per-dataset modules and  *)
(* the date extraction inside waporv3_api.filter_rasters_by_date.  variant *)
(* names the module whose parser runs:                                     *)
(*   "aet", "idek"   AET_dekadal, I_dekadal (dekadal suffix handled)       *)
(*   "rety", "pcpm"  RET_yearly, PCP_monthly                               *)
(*   "pcpy"          PCP_yearly                                            *)
(*   "v3"            filter_rasters_by_date (used by _download_mapset)     *)
(***************************************************************************)
ParserVariants == {"aet", "idek", "rety", "pcpm", "pcpy", "v3"}

\* for fmt in ("%Y-%m-%d", "%Y-%m", "%Y")
Formats == << "%Y-%m-%d", "%Y-%m", "%Y" >>

\* the return statement of the for loop's body
ReturnedDate(v, fmt, dt) ==
  IF v = "pcpy" THEN Date(dt.y, 1, 1)
  ELSE CASE fmt = "%Y"    -> Date(dt.y, 1, 1)
         [] fmt = "%Y-%m" -> Date(dt.y, dt.m, 1)
         [] OTHER         -> dt

\* token = code.split('.')[-1]; token = token.split('_')[-1]
\* (PCP_yearly has the first statement only)
SplitToken(v, c) ==
  IF v = "pcpy" THEN AfterLast(c, ".") ELSE AfterLast(AfterLast(c, "."), "_")

\* if 'D' in token[-2:]: token = token[:-3]      (AET_dekadal, I_dekadal)
\* token = token.replace("A", "")                (PCP_yearly)
StripToken(v, tok) ==
  CASE v = "pcpy" -> Without(tok, "A")
    [] v \in {"aet", "idek"} ->
         IF Contains(Last2(tok), "D") THEN DropLast3(tok) ELSE tok
    [] OTHER -> tok

\* the for loop from its i-th format on
RECURSIVE TryFrom(_, _, _)
TryFrom(v, tok, i) ==
  IF i > Len(Formats) THEN NoDate
  ELSE LET dt == Strptime(tok, Formats[i])
       IN  IF dt.ok THEN ReturnedDate(v, Formats[i], dt)
           ELSE TryFrom(v, tok, i + 1)

\* _parse_date_from_code(code) of module v, as one function
ParseDateFromCode(v, c) == TryFrom(v, StripToken(v, SplitToken(v, c)), 1)

\* the date that filter_rasters_by_date compares with the window; NoDate
\* when strptime raises ValueError
RasterDate(c) ==
  LET date_str == AfterLast(c, ".")
  IN  IF CountChar(date_str, "-") = 2 /\ Last2(date_str)[1] = "D"
      THEN Strptime(DropLast3(date_str), "%Y-%m")
      ELSE IF CountChar(date_str, "-") = 1
      THEN Strptime(date_str, "%Y-%m")
      ELSE IF ~Contains(date_str, "-") /\ Len(date_str) = 4
      THEN Strptime(date_str, "%Y")
      ELSE Strptime(date_str, "%Y-%m-%d")

PSplit ==
  /\ ppc = "entry"
  /\ variant # "v3"
  /\ token' = SplitToken(variant, code_)
  /\ IF variant \in {"rety", "pcpm"}
     THEN ppc' = "try" /\ fmt_i' = 1
     ELSE ppc' = "strip" /\ UNCHANGED fmt_i
  /\ UNCHANGED <<code_, parsed, all_rasters, ri, spc>>
  /\ UNCHANGED <<listVars, fetchVars, transVars, boxVars, lookVars>>

\* the statement that removes the dekadal suffix or the annual marker
PStrip ==
  /\ ppc = "strip"
  /\ token' = StripToken(variant, token)
  /\ ppc' = "try"
  /\ fmt_i' = 1
  /\ UNCHANGED <<code_, parsed, all_rasters, ri, spc>>
  /\ UNCHANGED <<listVars, fetchVars, transVars, boxVars, lookVars>>

\* one pass of the for loop: try: dt = datetime.strptime(token, fmt);
\* return ...; except ValueError: continue; after the loop: return None
PTry ==
  /\ ppc = "try"
  /\ LET fmt == Formats[fmt_i]
         dt  == Strptime(token, fmt)
     IN  IF dt.ok
         THEN /\ parsed' = ReturnedDate(variant, fmt, dt)
              /\ ppc' = "returned"
              /\ UNCHANGED fmt_i
         ELSE IF fmt_i < Len(Formats)
         THEN /\ fmt_i' = fmt_i + 1
              /\ UNCHANGED <<parsed, ppc>>
         ELSE /\ parsed' = NoDate
              /\ ppc' = "returned"
              /\ UNCHANGED fmt_i
  /\ UNCHANGED <<code_, token, all_rasters, ri, spc>>
  /\ UNCHANGED <<listVars, fetchVars, transVars, boxVars, lookVars>>

\* filter_rasters_by_date, the body of its try up to raster_date:
\* "nodot" when the code has no '.', "valueerror" when strptime raises
FExtract ==
  /\ ppc = "entry"
  /\ variant = "v3"
  /\ IF ~Contains(code_, ".")
     THEN /\ ppc' = "nodot"
          /\ UNCHANGED <<token, parsed>>
     ELSE LET raster_date == RasterDate(code_)
          IN  /\ token' = AfterLast(code_, ".")
              /\ parsed' = raster_date
              /\ ppc' = IF raster_date.ok THEN "returned" ELSE "valueerror"
  /\ UNCHANGED <<code_, fmt_i, all_rasters, ri, spc>>
  /\ UNCHANGED <<listVars, fetchVars, transVars, boxVars, lookVars>>

ParseNext == PSplit \/ PStrip \/ PTry \/ FExtract

(***************************************************************************)
(* SpecParse: one parser called on one code of the fixture.                *)
(***************************************************************************)
\* the codes are a prefix followed by a date-bearing segment
Prefixes ==
  { <<>>,
    \* "L1."
    <<"L", "1", ".">>,
    \* "L1_"
    <<"L", "1", "_">> }

Segments ==
  {
    \* "2020-06-15"
    <<"2", "0", "2", "0", "-", "0", "6", "-", "1", "5">>,
    \* "2019-12-31"
    <<"2", "0", "1", "9", "-", "1", "2", "-", "3", "1">>,
    \* "2021-01-01"
    <<"2", "0", "2", "1", "-", "0", "1", "-", "0", "1">>,
    \* "2020-02-30"
    <<"2", "0", "2", "0", "-", "0", "2", "-", "3", "0">>,
    \* "2020-06"
    <<"2", "0", "2", "0", "-", "0", "6">>,
    \* "2020-6"
    <<"2", "0", "2", "0", "-", "6">>,
    \* "2020"
    <<"2", "0", "2", "0">>,
    \* "2020A"
    <<"2", "0", "2", "0", "A">>,
    \* "20A20"
    <<"2", "0", "A", "2", "0">>,
    \* "2020-06-1D"
    <<"2", "0", "2", "0", "-", "0", "6", "-", "1", "D">>,
    \* "2020-06-D1"
    <<"2", "0", "2", "0", "-", "0", "6", "-", "D", "1">>,
    \* "2020-12-D"
    <<"2", "0", "2", "0", "-", "1", "2", "-", "D">>,
    \* "not-a-date"
    <<"n", "o", "t", "-", "a", "-", "d", "a", "t", "e">>,
    \* ""
    <<>>,
    \* "1D"
    <<"1", "D">> }

ParseCodes == { p \o s : p \in Prefixes, s \in Segments }

\* no fetch operation is running; variant names the parser
NoBatch ==
  /\ gis = FALSE
  /\ fpc = "none"
  /\ idx = 0
  /\ dir = FALSE
  /\ fs = EmptyDir
  /\ net = 0
  /\ amount = 0
  /\ results = <<>>
  /\ ret = "none"

InitParse ==
  /\ NoListing
  /\ NoTransform
  /\ NoBatch
  /\ NoBox
  /\ NoLookup
  /\ variant \in ParserVariants
  /\ start_dt = 0
  /\ end_dt = 0
  /\ selected = <<>>
  /\ code_ \in ParseCodes
  /\ ppc = "entry"
  /\ token = <<>>
  /\ fmt_i = 0
  /\ parsed = NoDate
  /\ all_rasters = <<>>
  /\ ri = 0
  /\ spc = "none"

SpecParse == InitParse /\ [][ParseNext]_vars

(***************************************************************************)
(* The selection: the filter loop of the entry points (in _download_mapset *)
(* the call of filter_rasters_by_date) and the sort that follows it.       *)
(***************************************************************************)
\* the longest list of rasters the selection is run on
MaxRasters == 3

\* the loop takes the next raster and has its code parsed
SelCall ==
  /\ spc = "loop"
  /\ ppc = "none"
  /\ ri <= Len(all_rasters)
  /\ code_' = all_rasters[ri][1]
  /\ ppc' = "entry"
  /\ token' = <<>>
  /\ fmt_i' = 0
  /\ parsed' = NoDate
  /\ UNCHANGED <<all_rasters, ri, spc>>
  /\ UNCHANGED <<listVars, fetchVars, transVars, boxVars, lookVars>>

\* a comparison that leaves out both ends of the window
InWindow_Exclusive(dt) == DateLess(start_dt, dt) /\ DateLess(dt, end_dt)

\* if start <= raster_date <= end / if (dt >= start_dt) and (dt <= end_dt)
InWindow(dt) == DateLeq(start_dt, dt) /\ DateLeq(dt, end_dt)

\* the rest of the loop body, once the date is known
\*   modules: if dt is None: continue
\*            if (dt >= start_dt) and (dt <= end_dt): selected.append(...)
\*   filter_rasters_by_date: if start <= raster_date <= end: append;
\*            except (ValueError, IndexError): filtered.append((code, url))
SelDecide ==
  /\ spc = "loop"
  /\ ppc \in {"returned", "nodot", "valueerror"}
  /\ LET code == all_rasters[ri][1]
         url  == all_rasters[ri][2]
     IN  selected' =
           IF variant = "v3"
           THEN IF \/ ppc = "valueerror"
                   \/ ppc = "returned" /\ InWindow(parsed)
                THEN Append(selected, <<code, url>>)
                ELSE selected
           ELSE IF parsed.ok /\ InWindow(parsed)
                THEN Append(selected, <<parsed, code, url>>)
                ELSE selected
  /\ ri' = ri + 1
  /\ ppc' = "none"
  /\ UNCHANGED <<variant, gis, start_dt, end_dt, fpc, idx, dir, fs, net,
                 amount, results, ret>>
  /\ UNCHANGED <<code_, token, fmt_i, parsed, all_rasters, spc>>
  /\ UNCHANGED <<listVars, transVars, boxVars, lookVars>>

\* x < y on the tuples (dt, code, url), as list.sort() compares them
EntryLess(x, y) ==
  \/ DateLess(x[1], y[1])
  \/ x[1] = y[1] /\ StrLess(x[2], y[2])
  \/ x[1] = y[1] /\ x[2] = y[2] /\ x[3] < y[3]

\* key=lambda x: x[0]
KeyLess(x, y) == DateLess(x[1], y[1])

\* list.sort, which is stable; whole says whether the tuples are compared
\* as wholes or by the key x[0]
SortLess(x, y, whole) == IF whole THEN EntryLess(x, y) ELSE KeyLess(x, y)

RECURSIVE InsertInto(_, _, _)
InsertInto(x, s, whole) ==
  IF s = <<>> THEN <<x>>
  ELSE IF SortLess(x, Head(s), whole) THEN <<x>> \o s
  ELSE <<Head(s)>> \o InsertInto(x, Tail(s), whole)

RECURSIVE SortedBy(_, _)
SortedBy(s, whole) ==
  IF s = <<>> THEN <<>>
  ELSE InsertInto(s[Len(s)], SortedBy(SubSeq(s, 1, Len(s) - 1), whole), whole)

\* the loop is exhausted: if not selected: return None; then
\*   selected.sort(key=lambda x: x[0])   (AET_dekadal, I_dekadal, RET_yearly)
\*   selected.sort()                     (PCP_yearly)
\*   nothing                             (_download_mapset)
SelEnd ==
  /\ spc = "loop"
  /\ ppc = "none"
  /\ ri > Len(all_rasters)
  /\ selected' = CASE variant = "v3"   -> selected
                   [] variant = "pcpy" -> SortedBy(selected, TRUE)
                   [] OTHER            -> SortedBy(selected, FALSE)
  /\ spc' = IF selected = <<>> THEN "nothing" ELSE "selected"
  /\ UNCHANGED <<variant, gis, start_dt, end_dt, fpc, idx, dir, fs, net,
                 amount, results, ret>>
  /\ UNCHANGED <<code_, ppc, token, fmt_i, parsed, all_rasters, ri>>
  /\ UNCHANGED <<listVars, transVars, boxVars, lookVars>>

SelectNext == SelCall \/ ParseNext \/ SelDecide \/ SelEnd

(***************************************************************************)
(* SpecSelect: the selection of an entry point run on a list of fixture    *)
(* rasters, in any order, with a fixture window.                           *)
(***************************************************************************)
\* the codes of the fixture rasters
\* "L1.2019-12-31"
Code_2019_12_31 == <<"L", "1", ".", "2", "0", "1", "9", "-", "1", "2", "-", "3", "1">>

\* "L1.2020-06-15"
Code_2020_06_15 == <<"L", "1", ".", "2", "0", "2", "0", "-", "0", "6", "-", "1", "5">>

\* "L1.2021-01-01"
Code_2021_01_01 == <<"L", "1", ".", "2", "0", "2", "1", "-", "0", "1", "-", "0", "1">>

\* "L1.2020-06"
Code_2020_06 == <<"L", "1", ".", "2", "0", "2", "0", "-", "0", "6">>

\* "L1.2020-06-1D"
Code_2020_06_1D == <<"L", "1", ".", "2", "0", "2", "0", "-", "0", "6", "-", "1", "D">>

\* "L1.not-a-date"
Code_NotADate == <<"L", "1", ".", "n", "o", "t", "-", "a", "-", "d", "a", "t", "e">>

\* "2020-06-15", a code without '.'
Code_NoDot == <<"2", "0", "2", "0", "-", "0", "6", "-", "1", "5">>

\* (code, url) of the fixture rasters
SelRasters ==
  { << Code_2019_12_31, 1 >>,
    << Code_2020_06_15, 2 >>,
    << Code_2021_01_01, 3 >>,
    << Code_2020_06, 4 >>,
    << Code_2020_06_1D, 5 >>,
    << Code_NotADate, 6 >>,
    << Code_NoDot, 7 >> }

\* the lists without repetition of at most MaxRasters fixture rasters
SelLists ==
  UNION { { l \in [1..n -> SelRasters] :
              \A j, k \in 1..n : j # k => l[j] # l[k] } : n \in 0..MaxRasters }

\* (Startdate, Enddate) of the fixture calls
SelWindows ==
  {
    \* "2020-01-01" .. "2020-12-31"
    << <<"2", "0", "2", "0", "-", "0", "1", "-", "0", "1">>,
       <<"2", "0", "2", "0", "-", "1", "2", "-", "3", "1">> >>,
    \* "2020-06-15" .. "2021-01-01"
    << <<"2", "0", "2", "0", "-", "0", "6", "-", "1", "5">>,
       <<"2", "0", "2", "1", "-", "0", "1", "-", "0", "1">> >>,
    \* "2020-06-01" .. "2020-06-01"
    << <<"2", "0", "2", "0", "-", "0", "6", "-", "0", "1">>,
       <<"2", "0", "2", "0", "-", "0", "6", "-", "0", "1">> >> }

InitSelect ==
  /\ NoListing
  /\ NoTransform
  /\ NoBatch
  /\ NoBox
  /\ NoLookup
  /\ variant \in Variants
  /\ \E w \in SelWindows :
       /\ start_dt = Strptime(w[1], "%Y-%m-%d")
       /\ end_dt = Strptime(w[2], "%Y-%m-%d")
  /\ selected = <<>>
  /\ all_rasters \in SelLists
  /\ ri = 1
  /\ spc = "loop"
  /\ code_ = <<>>
  /\ ppc = "none"
  /\ token = <<>>
  /\ fmt_i = 0
  /\ parsed = NoDate

SpecSelect == InitSelect /\ [][SelectNext]_vars

(***************************************************************************)
(* Properties of the selection.                                            *)
(***************************************************************************)
\* the selection has ended
SelDone == spc \in {"selected", "nothing"}

\* the date the entry point v compares with the window for the code c;
\* NoDate when it gets none
DateFor(v, c) ==
  IF v = "v3" THEN (IF Contains(c, ".") THEN RasterDate(c) ELSE NoDate)
  ELSE ParseDateFromCode(v, c)

\* the raster r is in the selection
IsSelected(r) ==
  \E j \in DOMAIN selected :
     CodeOf(selected[j]) = r[1] /\ UrlOf(selected[j]) = r[2]

InputCodes == { all_rasters[k][1] : k \in DOMAIN all_rasters }
SelectedCodes == { CodeOf(selected[j]) : j \in DOMAIN selected }

\* C12: the selection keeps exactly the dated assets whose parsed date d
\* satisfies start <= d <= end, both ends included: of the input rasters
\* that have a parsed date, those inside the window are selected, once,
\* and those outside are not.
C12_InclusiveWindow ==
  SelDone =>
     \A k \in DOMAIN all_rasters :
        LET d == DateFor(variant, all_rasters[k][1])
        IN  d.ok =>
              /\ IsSelected(all_rasters[k])
                   <=> (DateLeq(start_dt, d) /\ DateLeq(d, end_dt))
              /\ Cardinality({ j \in DOMAIN selected :
                                 CodeOf(selected[j]) = all_rasters[k][1] }) <= 1

\* window 2020-06-15 .. 2021-01-01 over assets dated 2019-12-31, 2020-06-15
\* and 2021-01-01: the assets dated exactly start and exactly end are kept
C12_Witness ==
  /\ SelDone
  /\ start_dt = Date(2020, 6, 15)
  /\ end_dt = Date(2021, 1, 1)
  /\ InputCodes = {Code_2019_12_31, Code_2020_06_15, Code_2021_01_01}
  /\ SelectedCodes = {Code_2020_06_15, Code_2021_01_01}

\* where the selected entry e stands in the input list
InputPos(e) ==
  CHOOSE k \in DOMAIN all_rasters :
     all_rasters[k][1] = CodeOf(e) /\ all_rasters[k][2] = UrlOf(e)

\* C13 (as claimed): the list the batch loop iterates over is sorted
\* ascending by parsed date for any ordering of the input list, and assets
\* with equal parsed date keep their relative order from the input list.
C13_SortedStable ==
  SelDone =>
     \A j, k \in DOMAIN selected :
        LET dj == DateFor(variant, CodeOf(selected[j]))
            dk == DateFor(variant, CodeOf(selected[k]))
        IN  (j < k /\ dj.ok /\ dk.ok) =>
               /\ DateLeq(dj, dk)
               /\ (dj = dk) => InputPos(selected[j]) < InputPos(selected[k])

\* C33 (as claimed): filter_rasters_by_date returns a subsequence of its
\* input, and decides on every element by the date in its code, the
\* segment after the last '.' or the whole code when it has no '.': the
\* element is kept when that date is in the window or cannot be parsed,
\* and left out when the date is outside the window.
C33_FilterDecidesEveryRaster ==
  (SelDone /\ variant = "v3") =>
     /\ \A j \in DOMAIN selected :
           \E k \in DOMAIN all_rasters : all_rasters[k] = selected[j]
     /\ \A j, k \in DOMAIN selected :
           j < k => InputPos(selected[j]) < InputPos(selected[k])
     /\ \A k \in DOMAIN all_rasters :
           LET d == RasterDate(all_rasters[k][1])
           IN  IsSelected(all_rasters[k]) <=> (~d.ok \/ InWindow(d))

\* C14 (as claimed): an asset whose identifier yields no parsable date is
\* excluded from the selection, in the per-module filter and in
\* filter_rasters_by_date alike, and the failure to parse ends no call.
C14_UnparsableExcluded ==
  /\ SelDone => \A j \in DOMAIN selected :
                   DateFor(variant, CodeOf(selected[j])).ok
  /\ (spc = "loop" /\ ppc \in {"nodot", "valueerror"}) => ENABLED SelDecide

(***************************************************************************)
(* Properties of the date parsers.                                         *)
(***************************************************************************)
\* the date-bearing segment of an identifier: what follows its last '.',
\* and in that what follows the last '_'
Segment(c) == AfterLast(AfterLast(c, "."), "_")

YearOf(s) == IntOf(SubSeq(s, 1, 4))
MonthOf(s) == IntOf(SubSeq(s, 6, 7))
DayOf(s) == IntOf(SubSeq(s, 9, 10))

\* "YYYY"
IsYearOnly(s) == Len(s) = 4 /\ IsDigits(s) /\ YearOf(s) >= 1

\* "YYYY-MM"
IsYearMonth(s) ==
  /\ Len(s) = 7
  /\ IsYearOnly(SubSeq(s, 1, 4))
  /\ s[5] = "-"
  /\ IsDigits(SubSeq(s, 6, 7))
  /\ MonthOf(s) \in 1..12

\* a valid full date "YYYY-MM-DD"
IsFullDate(s) ==
  /\ Len(s) = 10
  /\ IsYearMonth(SubSeq(s, 1, 7))
  /\ s[8] = "-"
  /\ IsDigits(SubSeq(s, 9, 10))
  /\ DayOf(s) \in 1..DaysIn(YearOf(s), MonthOf(s))

\* "YYYY-MM-<digit>D"
IsDekadal(s) ==
  /\ Len(s) = 10
  /\ IsYearMonth(SubSeq(s, 1, 7))
  /\ s[8] = "-"
  /\ s[9] \in Digits
  /\ s[10] = "D"

\* _parse_date_from_code has returned
Parsed == ppc = "returned" /\ variant # "v3"

\* C15 (as claimed): for every identifier whose date-bearing segment is a
\* valid full date "YYYY-MM-DD", _parse_date_from_code returns exactly that
\* calendar date: same year, month and day.
C15_FullDateExact ==
  (Parsed /\ IsFullDate(Segment(code_))) =>
     LET s == Segment(code_)
     IN  parsed = Date(YearOf(s), MonthOf(s), DayOf(s))

\* the for loop has tried the formats in their order and stands at the
\* first that can match
TriedInOrder ==
  /\ Formats = << "%Y-%m-%d", "%Y-%m", "%Y" >>
  /\ (ppc = "try") =>
        \A i \in 1..(fmt_i - 1) : ~Strptime(token, Formats[i]).ok
  /\ (Parsed /\ parsed.ok) =>
        /\ Strptime(token, Formats[fmt_i]).ok
        /\ \A i \in 1..(fmt_i - 1) : ~Strptime(token, Formats[i]).ok

\* C16 (as claimed): for every identifier whose date-bearing segment is
\* "YYYY-MM", _parse_date_from_code returns day 1 of that month of that
\* year, and for every segment "YYYY" January 1 of that year; the patterns
\* are tried in the order full date, year-month, year-only and the first
\* that matches wins.
C16_YearMonthAndYear ==
  /\ TriedInOrder
  /\ (Parsed /\ IsYearMonth(Segment(code_))) =>
        parsed = Date(YearOf(Segment(code_)), MonthOf(Segment(code_)), 1)
  /\ (Parsed /\ IsYearOnly(Segment(code_))) =>
        parsed = Date(YearOf(Segment(code_)), 1, 1)

\* C17 (as claimed): for every dekadal identifier whose date-bearing segment
\* is "YYYY-MM-<digit>D", the date used for the selection is day 1 of that
\* month, in the dekadal-aware _parse_date_from_code and in the date
\* extraction of filter_rasters_by_date alike.
C17_DekadalIsFirstOfMonth ==
  LET s == IF variant = "v3" THEN AfterLast(code_, ".") ELSE Segment(code_)
  IN  (/\ variant \in {"aet", "idek", "v3"}
       /\ ppc \in {"returned", "valueerror"}
       /\ IsDekadal(s)) =>
         parsed = Date(YearOf(s), MonthOf(s), 1)

\* s without a single trailing "A"
WithoutTrailingA(s) ==
  IF s # <<>> /\ s[Len(s)] = "A" THEN SubSeq(s, 1, Len(s) - 1) ELSE s

\* "-<digit>D", or "-D<digit>" as the catalog writes it
IsDekadalSuffix(t) ==
  /\ Len(t) = 3
  /\ t[1] = "-"
  /\ \/ t[2] \in Digits /\ t[3] = "D"
     \/ t[2] = "D" /\ t[3] \in Digits

\* the segment without its trailing marker: a dekadal suffix or one "A"
Unmarked(s) ==
  IF Len(s) >= 3 /\ IsDekadalSuffix(SubSeq(s, Len(s) - 2, Len(s)))
  THEN DropLast3(s)
  ELSE WithoutTrailingA(s)

\* none of the three formats matches s
MatchesNoPattern(s) == \A i \in DOMAIN Formats : ~Strptime(s, Formats[i]).ok

\* C18 (as claimed): for every identifier whose date-bearing segment (its
\* trailing marker apart) matches none of the three date patterns,
\* _parse_date_from_code returns None, and it does not raise: until it has
\* returned it always has a next step.
C18_NoMatchGivesNone ==
  /\ (Parsed /\ MatchesNoPattern(Unmarked(Segment(code_)))) =>
        parsed = NoDate
  /\ (variant # "v3" /\ ppc \in {"entry", "strip", "try"}) =>
        ENABLED ParseNext

\* C19 (as claimed): the annual parser strips only a single trailing "A"
\* from the token before matching; an "A" at any other position is left in
\* place, so that a token with an "A" elsewhere parses to None.
C19_OnlyTrailingAStripped ==
  LET t == WithoutTrailingA(AfterLast(code_, "."))
  IN  /\ (variant = "pcpy" /\ ppc \in {"try", "returned"}) => token = t
      /\ (variant = "pcpy" /\ ppc = "returned" /\ Contains(t, "A")) =>
            parsed = NoDate

(***************************************************************************)
(* The scale-factor table of WaPOR_v3.  A dataset identifier such as       *)
(* "L1-PCP-M" is the tuple of its three parts, <<"L1", "PCP", "M">>; a     *)
(* factor is in tenths, as `scale` is (0.1 is 1, 1.0 is 10).               *)
(***************************************************************************)
SCALE_FACTORS ==
  (<<"L1", "PCP", "E">> :> 1) @@ (<<"L1", "PCP", "D">> :> 1)
  @@ (<<"L1", "PCP", "M">> :> 1) @@ (<<"L1", "PCP", "A">> :> 1)
  @@ (<<"L1", "RET", "E">> :> 1) @@ (<<"L1", "RET", "D">> :> 1)
  @@ (<<"L1", "RET", "M">> :> 1) @@ (<<"L1", "RET", "A">> :> 1)
  @@ (<<"L1", "AETI", "D">> :> 1) @@ (<<"L1", "AETI", "M">> :> 1)
  @@ (<<"L1", "AETI", "A">> :> 1) @@ (<<"L2", "AETI", "D">> :> 1)
  @@ (<<"L2", "AETI", "M">> :> 1) @@ (<<"L2", "AETI", "A">> :> 1)
  @@ (<<"L1", "I", "D">> :> 1) @@ (<<"L1", "I", "M">> :> 1)
  @@ (<<"L1", "I", "A">> :> 1) @@ (<<"L2", "I", "D">> :> 1)
  @@ (<<"L2", "I", "M">> :> 1) @@ (<<"L2", "I", "A">> :> 1)
  @@ (<<"L1", "T", "D">> :> 1) @@ (<<"L1", "T", "M">> :> 1)
  @@ (<<"L1", "T", "A">> :> 1) @@ (<<"L2", "T", "D">> :> 1)
  @@ (<<"L2", "T", "M">> :> 1) @@ (<<"L2", "T", "A">> :> 1)
  @@ (<<"L1", "NPP", "D">> :> 10) @@ (<<"L1", "NPP", "M">> :> 10)
  @@ (<<"L1", "NPP", "A">> :> 10) @@ (<<"L2", "NPP", "D">> :> 10)
  @@ (<<"L2", "NPP", "M">> :> 10) @@ (<<"L2", "NPP", "A">> :> 10)
  @@ (<<"L1", "LCC", "A">> :> 10) @@ (<<"L2", "LCC", "A">> :> 10)

\* SCALE_FACTORS.get(mapset_code, 1.0) with 0.1 in the place of the default
ScaleOf_DefaultTenth(d, k) == IF k \in DOMAIN d THEN d[k] ELSE 1

\* SCALE_FACTORS.get(mapset_code, 1.0)
ScaleOf(d, k) == IF k \in DOMAIN d THEN d[k] ELSE 10

\* the identifiers the lookup is called with: every level, product and
\* time step of the table in every combination, and some of neither
Levels == {"L1", "L2", "L3"}
Products == {"PCP", "RET", "AETI", "I", "T", "NPP", "LCC", "GBWP"}
TimeSteps == {"E", "D", "M", "A"}
MapsetCodes == Levels \X Products \X TimeSteps

\* number of lookups made one after the other
MaxLookups == 2

\* scale = SCALE_FACTORS.get(mapset_code, 1.0), for any identifier
ScaleLookup ==
  /\ nlook < MaxLookups
  /\ \E c \in MapsetCodes :
       /\ mapset_code' = c
       /\ scale' = ScaleOf(scale_factors, c)
  /\ nlook' = nlook + 1
  /\ UNCHANGED <<scale_factors, level>>
  /\ UNCHANGED <<tpc, src_arr, arr>>
  /\ UNCHANGED <<listVars, fetchVars, dateVars, boxVars>>

(***************************************************************************)
(* SpecScale: the module is loaded and the lookup is made again and again. *)
(***************************************************************************)
InitScale ==
  /\ NoListing
  /\ NoFetch
  /\ NoTransform
  /\ NoDates
  /\ NoBox
  /\ scale_factors = SCALE_FACTORS
  /\ mapset_code = <<>>
  /\ nlook = 0
  /\ level = 1

SpecScale == InitScale /\ [][ScaleLookup]_vars

\* the identifiers of the table
Registered == DOMAIN SCALE_FACTORS

\* C27: the lookup gives 0.1 for every registered precipitation,
\* reference-ET, actual-ET, interception and transpiration code, 1.0 for
\* every registered NPP and land-cover code and 1.0 for an identifier that
\* is not in the table, and it leaves the table as it was.
C27_ScaleLookup ==
  /\ scale_factors = SCALE_FACTORS
  /\ (nlook > 0) =>
       /\ (mapset_code \in Registered
             /\ mapset_code[2] \in {"PCP", "RET", "AETI", "I", "T"})
          => scale = 1
       /\ (mapset_code \in Registered
             /\ mapset_code[2] \in {"NPP", "LCC"})
          => scale = 10
       /\ (mapset_code \notin Registered) => scale = 10
       /\ scale \in {1, 10}

\* a second lookup, of an identifier that is not registered, after which a
\* registered precipitation code would still be found in the table
C27_Witness ==
  /\ nlook = 2
  /\ mapset_code = <<"L2", "PCP", "M">>
  /\ mapset_code \notin Registered
  /\ scale = 10
  /\ ScaleOf(scale_factors, <<"L1", "PCP", "M">>) = 1

(***************************************************************************)
(* The level parameter.  The wrappers AET_dekadal, AET_monthly,            *)
(* AET_yearly, I_dekadal, I_yearly and LCC_yearly of WaPOR_v3 ("v3"),      *)
(* AET_dekadal.main ("aet") and I_dekadal.main ("idek") choose the dataset *)
(* code from level before anything else.                                   *)
(***************************************************************************)
\* product and time step of the operations of each entry point
LevelOps(v) ==
  CASE v = "v3"   -> { <<"AETI", "D">>, <<"AETI", "M">>, <<"AETI", "A">>,
                       <<"I", "D">>, <<"I", "A">>, <<"LCC", "A">> }
    [] v = "aet"  -> { <<"AETI", "D">> }
    [] v = "idek" -> { <<"I", "D">> }

\* a choice that falls back to the L1 code for any other level
MapsetFor_ElseL1(op, l) ==
  IF l = 2 THEN <<"L2", op[1], op[2]>> ELSE <<"L1", op[1], op[2]>>

\* if level == 1: mapset = "L1-..." elif level == 2: mapset = "L2-..."
\* else: no dataset (<<>>)
MapsetFor(op, l) ==
  IF l = 1 THEN <<"L1", op[1], op[2]>>
  ELSE IF l = 2 THEN <<"L2", op[1], op[2]>>
  ELSE <<>>

\* the head of the entry point: the wrappers of WaPOR_v3 raise ValueError
\* for another level, the main functions print and return None
LevelSelect ==
  /\ fpc = "level"
  /\ \E op \in LevelOps(variant) :
       LET mapset == MapsetFor(op, level)
       IN  /\ mapset_code' = mapset
           /\ IF mapset = <<>>
              THEN /\ ret' = IF variant = "v3" THEN "ValueError" ELSE "None"
                   /\ fpc' = "done"
              ELSE /\ fpc' = "start"
                   /\ UNCHANGED ret
  /\ UNCHANGED <<variant, gis, start_dt, end_dt, selected, idx, dir, fs, net,
                 amount, results>>
  /\ UNCHANGED <<scale_factors, nlook, level>>
  /\ UNCHANGED <<listVars, transVars, dateVars, boxVars>>

\* the levels the fixture callers give
LevelInputs == {0, 1, 2, 3}

(***************************************************************************)
(* SpecLevel: an entry point with a level parameter, called with any       *)
(* level of the fixture, up to the return of its catalog listing.          *)
(***************************************************************************)
InitLevel ==
  /\ pages \in BoxCatalogs
  /\ info = InfoList(<<"code", "downloadUrl">>)
  /\ lpc = "idle"
  /\ data_next = 0
  /\ url_ = 0
  /\ attempt = 0
  /\ output = <<>>
  /\ fetched = <<>>
  /\ nreq = 0
  /\ nfail = 0
  /\ slept = 0
  /\ variant \in {"v3", "aet", "idek"}
  /\ gis \in (IF variant = "v3" THEN BOOLEAN ELSE {TRUE})
  /\ start_dt = 1
  /\ end_dt = 3
  /\ \E old \in { {}, {1} } :
       /\ fs = [p \in FilePaths |->
                  IF p[1] = "dest" /\ p[2] \in old THEN "old" ELSE "absent"]
       /\ dir = (old # {})
  /\ lonlim = CoveringBox.lonlim
  /\ latlim = CoveringBox.latlim
  /\ fpc = "level"
  /\ selected = <<>>
  /\ idx = 0
  /\ net = 0
  /\ amount = 0
  /\ results = <<>>
  /\ ret = "running"
  /\ NoTransform
  /\ NoDates
  /\ scale_factors = SCALE_FACTORS
  /\ mapset_code = <<>>
  /\ nlook = 0
  /\ level \in LevelInputs

LevelNext == LevelSelect \/ Begin \/ ListNext

SpecLevel == InitLevel /\ [][LevelNext]_vars

\* C34: once the head of a level-parameterised entry point has run,
\* level 1 has chosen the L1 code of its dataset and level 2 the L2 code,
\* both codes of the table; for any other level the call has ended with
\* no listing request issued, no download or warp, and the output
\* directory and its files as they were before the call.
C34_LevelSelectsDataset ==
  (fpc # "level") =>
     /\ (level = 1) => (mapset_code \in Registered /\ mapset_code[1] = "L1")
     /\ (level = 2) => (mapset_code \in Registered /\ mapset_code[1] = "L2")
     /\ (level \notin {1, 2}) =>
          /\ fpc = "done"
          /\ ret \in {"ValueError", "None"}
          /\ lpc = "idle"
          /\ nreq = 0
          /\ net = 0
          /\ \A p \in FilePaths : fs[p] \in {"absent", "old"}
          /\ dir <=> \E p \in FilePaths : fs[p] = "old"

\* a wrapper of WaPOR_v3 called with level 3 and no output directory has
\* ended in ValueError with nothing requested and no directory made
C34_Witness ==
  /\ variant = "v3"
  /\ level = 3
  /\ fpc = "done"
  /\ ret = "ValueError"
  /\ nreq = 0
  /\ ~dir

====
